---- MODULE Spec2Model ----
(***************************************************************************)
(* RootInteraction (s2-core interaction/root): the interaction state of a  *)
(* sheet -- the stored InteractionStateInfo, the intercept set, the        *)
(* registered interactions, the hover timer -- and the methods that change *)
(* it.  Every public method is one action; the calls a method makes are    *)
(* operators on a record of the whole mutable state, applied in the order  *)
(* of the source.  `trace` is the list of outward effects of the last call *)
(* (draw, cell updates, emitted events, ...), `op` the call itself.        *)
(***************************************************************************)
EXTENDS Integers, Sequences, FiniteSets, TLC

VARIABLES
  storeRef,        \* what store[INTERACTION_STATE_INFO_KEY] holds: "unset", "default" (the defaultState object) or "own"
  own,             \* the state object stored by setState when storeRef = "own"
  intercepts,      \* this.intercepts
  interactions,    \* keys of this.interactions
  eventController, \* "bound" | "cleared"
  listener,        \* the window visibilitychange listener is registered
  scroll,          \* facet.getScrollOffset()
  sheet,           \* the sheet's configuration (options, facet), fixed at construction
  op,              \* the last call: name, arguments, return value
  trace            \* outward effects of the last call, in order

vars == <<storeRef, own, intercepts, interactions, eventController,
          listener, scroll, sheet, op, trace>>

\* ---------------------------------------------------------------- bounds
\* longest cell list a caller passes to changeState
MaxCellsArg == 1
\* largest scroll offset a caller passes to scrollTo
MaxOffset == 2
\* largest rowIndex of a clicked column cell's data
MaxRowIndex == 1

\* -------------------------------------------------------------- constants
Undefined == "undefined"

SELECTED == "selected"
ALL_SELECTED == "allSelected"
UNSELECTED == "unselected"
HOVER == "hover"
HOVER_FOCUS == "hoverFocus"
ROW_CELL_BRUSH_SELECTED == "rowCellBrushSelected"
COL_CELL_BRUSH_SELECTED == "colCellBrushSelected"
DATA_CELL_BRUSH_SELECTED == "dataCellBrushSelected"

InteractionStateName ==
  {SELECTED, ALL_SELECTED, UNSELECTED, HOVER, HOVER_FOCUS,
   ROW_CELL_BRUSH_SELECTED, COL_CELL_BRUSH_SELECTED, DATA_CELL_BRUSH_SELECTED}

InterceptHover == "hover"
InterceptType == {InterceptHover, "click"}

COL_CELL == "colCell"
DATA_CELL == "dataCell"

\* ------------------------------------------------------------- the sheet
\* Ids are strings in the source; here a string is a sequence of characters
\* (numbers), so that String.includes is a real substring test.
includes(str, sub) ==
  \E i \in 0..(Len(str) - Len(sub)) :
     \A j \in 1..Len(sub) : str[i + j] = sub[j]

\* A cell object as changeCell sees it: `empty` for what lodash isEmpty takes
\* as empty (null, undefined, {}), `meta` for what cell.getMeta() yields.
colCell ==
  [empty |-> FALSE, meta |-> "ok", id |-> <<1>>, cellType |-> COL_CELL, x |-> 0, y |-> 0]
dataCellA ==
  [empty |-> FALSE, meta |-> "ok", id |-> <<1, 2>>, cellType |-> DATA_CELL, x |-> 1, y |-> 1]
emptyCell ==
  [empty |-> TRUE, meta |-> "none", id |-> <<>>, cellType |-> Undefined, x |-> 0, y |-> 0]
noMetaCell ==
  [empty |-> FALSE, meta |-> "none", id |-> <<>>, cellType |-> DATA_CELL, x |-> 0, y |-> 0]
noXCell ==
  [empty |-> FALSE, meta |-> "nox", id |-> <<4>>, cellType |-> DATA_CELL, x |-> 0, y |-> 0]

\* facet.getCells(): the cells of the rendered sheet, in layout order
facetGetCells == <<colCell, dataCellA>>
FacetCells == {facetGetCells[i] : i \in 1..Len(facetGetCells)}
\* the cell arguments of changeCell
CellArgs == FacetCells \cup {emptyCell, noMetaCell, noXCell}

\* getCellMeta(cell): the CellMeta kept in state.cells
getCellMeta(cell) == [id |-> cell.id, type |-> cell.cellType]

\* facet.getCellChildrenNodes(cell): the leaf nodes under a header cell
getCellChildrenNodes(cell) ==
  IF cell.cellType = COL_CELL THEN <<cell.id \o <<5>> >> ELSE <<>>

\* ------------------------------------------------------ lodash / helpers
isEmpty(seq) == Len(seq) = 0

Range(seq) == {seq[i] : i \in 1..Len(seq)}

\* Array.prototype.map(cell => cell.id)
mapIds(cells) == [i \in 1..Len(cells) |-> cells[i].id]

\* facet.getDataCells(), facet.getHeaderCells(ids)
getDataCells == SelectSeq(facetGetCells, LAMBDA c : c.cellType = DATA_CELL)
getHeaderCells(ids) ==
  SelectSeq(facetGetCells, LAMBDA c : c.cellType # DATA_CELL /\ c.id \in Range(ids))

\* An InteractionStateInfo object.  cellsGiven is FALSE when the caller left
\* `cells` out; onUpdateCells is "none" or what the caller's callback does
\* with the update function it receives.
StateInfo(stateName, cellsGiven, cells, nodes, force, onUpdateCells) ==
  [stateName |-> stateName, cellsGiven |-> cellsGiven, cells |-> cells,
   nodes |-> nodes, force |-> force, onUpdateCells |-> onUpdateCells]

\* `cells = []` of a destructured InteractionStateInfo
argCellsOf(info) == IF info.cellsGiven THEN info.cells ELSE <<>>

\* private defaultState = { cells: [], force: false }
defaultState == StateInfo(Undefined, TRUE, <<>>, <<>>, FALSE, "none")

\* what `own` holds while the store does not refer to it
NoInfo == StateInfo(Undefined, FALSE, <<>>, <<>>, FALSE, "none")

\* the whole mutable state as one record, threaded through the calls
Cur ==
  [storeRef |-> storeRef, own |-> own,
   intercepts |-> intercepts, interactions |-> interactions,
   eventController |-> eventController, listener |-> listener,
   scroll |-> scroll, trace |-> <<>>, ret |-> Undefined]

Ev(e, a) == [e |-> e, a |-> a]
Log(s, e, a) == [s EXCEPT !.trace = Append(@, Ev(e, a))]

\* ------------------------------------------------- the sheet's services
\* spreadsheet.container.render()
draw(s) == Log(s, "draw", <<>>)

\* spreadsheet.hideTooltip()
hideTooltip(s) == Log(s, "hideTooltip", <<>>)

\* spreadsheet.emit(S2Event.GLOBAL_SELECTED, cells)
emitGlobalSelected(s, cells) == Log(s, "GLOBAL_SELECTED", mapIds(cells))

\* cells.forEach(cell => cell.update())
updateCells(s, cells) == Log(s, "updateCells", mapIds(cells))

\* facet.updateScrollOffset(config): the facet scrolls to the offsets given
updateScrollOffset(s, config) ==
  Log([s EXCEPT !.scroll = [scrollX |-> config.offsetX.value,
                            scrollY |-> config.offsetY.value,
                            rowHeaderScrollX |-> config.rowHeaderOffsetX.value]],
      "updateScrollOffset",
      <<config.offsetX.value, config.offsetY.value, config.rowHeaderOffsetX.value>>)

\* customMerge(config, offsetConfig): the axes of offsetConfig over config's
customMerge(config, offsetConfig) ==
  [axis \in DOMAIN config |->
     IF axis \in DOMAIN offsetConfig THEN offsetConfig[axis] ELSE config[axis]]

\* ------------------------------------------------------- reading state
\* store.get(INTERACTION_STATE_INFO_KEY) || defaultState
getState(s) == IF s.storeRef = "own" THEN s.own ELSE defaultState

getCurrentStateName(s) == getState(s).stateName

isEqualStateName(s, stateName) == getCurrentStateName(s) = stateName

isStateOf(s, stateName) == getState(s).stateName = stateName

isSelectedState(s) ==
  \E stateName \in {SELECTED, ALL_SELECTED, ROW_CELL_BRUSH_SELECTED,
                    COL_CELL_BRUSH_SELECTED, DATA_CELL_BRUSH_SELECTED} :
     isStateOf(s, stateName)

isAllSelectedState(s) == isStateOf(s, ALL_SELECTED)

isHoverFocusState(s) == isStateOf(s, HOVER_FOCUS)

isHoverState(s) == isStateOf(s, HOVER)

\* currentState?.cells || []
getCells(s) == IF getState(s).cellsGiven THEN getState(s).cells ELSE <<>>

isActiveCell(s, cell) == \E i \in 1..Len(getCells(s)) : getCells(s)[i].id = cell.id

isSelectedCell(s, cell) == isSelectedState(s) /\ isActiveCell(s, cell)

\* the facet's cells whose id is in state.cells, in the order of state.cells
getActiveCells(s) ==
  LET ids == mapIds(getCells(s))
      found == SelectSeq(ids, LAMBDA id : \E c \in FacetCells : c.id = id)
  IN [i \in 1..Len(found) |-> CHOOSE c \in FacetCells : c.id = found[i]]

\* hasIntercepts asking for every type instead of some type
hasInterceptsEvery(s, interceptTypes) ==
  \A i \in 1..Len(interceptTypes) : interceptTypes[i] \in s.intercepts

hasIntercepts(s, interceptTypes) ==
  \E i \in 1..Len(interceptTypes) : interceptTypes[i] \in s.intercepts

\* ------------------------------------------------ state-controller utils
\* utils/interaction/state-controller clearState(spreadsheet): puts the
\* default state back in the store (interaction.resetState).  Whether it
\* reports a change (and so asks for a redraw) is the caller's `dirty`.
resetState(s) == [s EXCEPT !.storeRef = "default", !.own = NoInfo]

clearStateUtil(s) == resetState(Log(s, "clearState", <<>>))

\* utils/interaction/state-controller setState(spreadsheet, info): stores
\* the caller's object under INTERACTION_STATE_INFO_KEY
setStateUtil(s, info) ==
  Log([s EXCEPT !.storeRef = "own", !.own = info], "setState", <<>>)

\* ------------------------------------------------------------- methods
setState(s, interactionStateInfo) == setStateUtil(s, interactionStateInfo)

\* clearTimeout(this.hoverTimer)
clearHoverTimer(s) == Log(s, "clearTimeout", <<>>)

clearState(s, dirty) ==
  LET cleared == clearStateUtil(s)
  IN IF dirty THEN draw(cleared) ELSE cleared

RECURSIVE addIntercepts(_, _)
addIntercepts(s, interceptTypes) ==
  IF interceptTypes = <<>> THEN s
  ELSE addIntercepts([s EXCEPT !.intercepts = @ \cup {Head(interceptTypes)}],
                     Tail(interceptTypes))

RECURSIVE removeIntercepts(_, _)
removeIntercepts(s, interceptTypes) ==
  IF interceptTypes = <<>> THEN s
  ELSE removeIntercepts([s EXCEPT !.intercepts = @ \ {Head(interceptTypes)}],
                        Tail(interceptTypes))

\* reset without intercepts.clear()
resetKeepsIntercepts(s, dirty) == hideTooltip(clearHoverTimer(clearState(s, dirty)))

\* reset without clearState()
resetKeepsState(s, dirty) ==
  hideTooltip([clearHoverTimer(s) EXCEPT !.intercepts = {}])

reset(s, dirty) ==
  LET s1 == clearState(s, dirty)
      s2 == clearHoverTimer(s1)
      s3 == [s2 EXCEPT !.intercepts = {}]
  IN hideTooltip(s3)

\* destroy without removeEventListener
destroyKeepsListener(s) ==
  resetState(Log([s EXCEPT !.interactions = {}, !.intercepts = {},
                           !.eventController = "cleared"],
                 "eventController.clear", <<>>))

destroy(s) ==
  LET s1 == [s EXCEPT !.interactions = {}]
      s2 == [s1 EXCEPT !.intercepts = {}]
      s3 == Log([s2 EXCEPT !.eventController = "cleared"], "eventController.clear", <<>>)
      s4 == clearHoverTimer(s3)
      s5 == resetState(s4)
  IN Log([s5 EXCEPT !.listener = FALSE], "removeEventListener", <<>>)

\* interactions.forEach(interaction => interaction.reset())
onTriggerInteractionsResetEffect(s) ==
  IF s.interactions = {} THEN s
  ELSE Log(s, "interaction.reset", <<>>)

clearStyleIndependent(s) ==
  IF ~isSelectedState(s) /\ ~isHoverState(s) /\ ~isAllSelectedState(s)
  THEN s
  ELSE Log(s, "hideInteractionShape", mapIds(getDataCells))

updateAllDataCells(s) == updateCells(s, getDataCells)

\* changeStateApply storing the new state before it clears the old one
changeStateApplyStoresFirst(s, interactionStateInfo, dirty) ==
  LET s1 == setStateUtil(s, interactionStateInfo)
      s2 == IF dirty THEN draw(clearStateUtil(s1)) ELSE clearStateUtil(s1)
  IN draw(updateCells(s2, getDataCells))

\* changeStateApply without its closing draw()
changeStateApplyNoDraw(s, interactionStateInfo, dirty) ==
  LET s1 == IF dirty THEN draw(clearStateUtil(s)) ELSE clearStateUtil(s)
      s2 == setStateUtil(s1, interactionStateInfo)
  IN IF interactionStateInfo.onUpdateCells = "none"
     THEN updateCells(s2, getDataCells)
     ELSE Log(s2, "onUpdateCells", <<>>)

\* changeState past its early return: lines 795-814
changeStateApply(s, interactionStateInfo, dirty) ==
  LET s1 == IF getCurrentStateName(s) = ALL_SELECTED
            THEN clearStyleIndependent(s) ELSE s
      s2 == clearState(s1, dirty)
      s3 == setState(s2, interactionStateInfo)
      s4 == CASE interactionStateInfo.onUpdateCells = "none" -> updateAllDataCells(s3)
              [] interactionStateInfo.onUpdateCells = "update" ->
                   updateAllDataCells(Log(s3, "onUpdateCells", <<>>))
              [] OTHER -> Log(s3, "onUpdateCells", <<>>)
  IN draw(s4)

\* changeState whose early return unselects whether or not force is set
changeStateForcesAlways(s, interactionStateInfo, dirty) ==
  IF argCellsOf(interactionStateInfo) = <<>> /\ interactionStateInfo.stateName = SELECTED
  THEN changeStateApply(s, StateInfo(UNSELECTED, TRUE, <<>>, <<>>, FALSE, "none"), dirty)
  ELSE changeStateApply(s, interactionStateInfo, dirty)

\* changeState whose early return never unselects
changeStateIgnoresForce(s, interactionStateInfo, dirty) ==
  IF argCellsOf(interactionStateInfo) = <<>> /\ interactionStateInfo.stateName = SELECTED
  THEN s
  ELSE changeStateApply(s, interactionStateInfo, dirty)

changeState(s, interactionStateInfo, dirty) ==
  LET cells == argCellsOf(interactionStateInfo)
  IN IF isEmpty(cells) /\ interactionStateInfo.stateName = SELECTED
     THEN IF interactionStateInfo.force
          THEN changeStateApply(s, StateInfo(UNSELECTED, TRUE, <<>>, <<>>, FALSE, "none"),
                                dirty)
          ELSE s
     ELSE changeStateApply(s, interactionStateInfo, dirty)

\* selectAll without addIntercepts([HOVER])
selectAllNoIntercept(s, dirty) ==
  updateCells(changeState(s, StateInfo(ALL_SELECTED, FALSE, <<>>, <<>>, FALSE, "none"),
                          dirty),
              facetGetCells)

selectAll(s, dirty) ==
  LET s1 == changeState(s, StateInfo(ALL_SELECTED, FALSE, <<>>, <<>>, FALSE, "none"), dirty)
      s2 == addIntercepts(s1, <<InterceptHover>>)
  IN updateCells(s2, facetGetCells)

\* scrollTo starting from zero offsets instead of the facet's current ones
scrollToFromZero(s, offsetConfig) ==
  LET config == [offsetX |-> [value |-> 0, animate |-> TRUE],
                 offsetY |-> [value |-> 0, animate |-> TRUE],
                 rowHeaderOffsetX |-> [value |-> 0, animate |-> TRUE]]
  IN updateScrollOffset(s, customMerge(config, offsetConfig))

scrollTo(s, offsetConfig) ==
  LET config == [offsetX |-> [value |-> s.scroll.scrollX, animate |-> TRUE],
                 offsetY |-> [value |-> s.scroll.scrollY, animate |-> TRUE],
                 rowHeaderOffsetX |->
                   [value |-> s.scroll.rowHeaderScrollX, animate |-> TRUE]]
  IN updateScrollOffset(s, customMerge(config, offsetConfig))

\* meta is the meta of a cell that has one
scrollToCellByMeta(s, meta, animate) ==
  IF ~sheet.scrollBars THEN s
  ELSE scrollTo(s, [rowHeaderOffsetX |-> [value |-> meta.x, animate |-> animate],
                    offsetX |-> [value |-> meta.x, animate |-> animate],
                    offsetY |-> [value |-> meta.y, animate |-> animate]])

scrollToCell(s, cell) == scrollToCellByMeta(s, cell, TRUE)

scrollToTop(s, animate) == scrollTo(s, [offsetY |-> [value |-> 0, animate |-> animate]])

scrollToRight(s, animate) ==
  scrollTo(s, [offsetX |-> [value |-> sheet.panelBBox.maxX, animate |-> animate]])

scrollToBottom(s, animate) ==
  scrollTo(s, [offsetY |-> [value |-> sheet.panelBBox.maxY, animate |-> animate]])

scrollToLeft(s, animate) == scrollTo(s, [offsetX |-> [value |-> 0, animate |-> animate]])

highlightNodes(s, nodes) ==
  IF nodes = <<>> THEN s ELSE Log(s, "updateByState", nodes)

\* the guards of changeCell without the isNil(meta.x) test
changeCellRejectsNoMetaOnly(cell) == cell.empty \/ cell.meta = "none"

\* the guards of changeCell: isEmpty(cell), !meta, isNil(meta.x)
changeCellRejects(cell) == cell.empty \/ cell.meta = "none" \/ cell.meta = "nox"

\* changeCellSelectedCells putting the new cell before the last state's cells
changeCellSelectedCellsPrepends(s, cell, isMultiSelection) ==
  LET isSelected == isSelectedCell(s, cell)
      isMultiSelected == isMultiSelection /\ isSelectedState(s)
      selected0 == IF isSelected THEN <<>> ELSE <<getCellMeta(cell)>>
      selected1 == IF isMultiSelected THEN selected0 \o getCells(s) ELSE selected0
  IN IF isMultiSelected /\ isSelected
     THEN SelectSeq(selected1, LAMBDA m : m.id # cell.id)
     ELSE selected1

\* the cells changeCell selects: none for an already selected cell, else the
\* cell's meta; after the cells of the last state under multi-selection
changeCellSelectedCells(s, cell, isMultiSelection) ==
  LET lastState == getState(s)
      isSelected == isSelectedCell(s, cell)
      isMultiSelected == isMultiSelection /\ isSelectedState(s)
      selected0 == IF isSelected THEN <<>> ELSE <<getCellMeta(cell)>>
      lastCells == IF lastState.cellsGiven THEN lastState.cells ELSE <<>>
      selected1 == IF isMultiSelected THEN lastCells \o selected0 ELSE selected0
  IN IF isMultiSelected /\ isSelected
     THEN SelectSeq(selected1, LAMBDA m : m.id # cell.id)
     ELSE selected1

\* the children nodes changeCell highlights, computed alongside
changeCellChildrenNodes(s, cell, isMultiSelection) ==
  LET lastState == getState(s)
      isSelected == isSelectedCell(s, cell)
      isMultiSelected == isMultiSelection /\ isSelectedState(s)
      children0 == IF isSelected THEN <<>> ELSE getCellChildrenNodes(cell)
      children1 == IF isMultiSelected THEN lastState.nodes \o children0 ELSE children0
  IN IF isMultiSelected /\ isSelected
     THEN SelectSeq(children1, LAMBDA id : ~includes(id, cell.id))
     ELSE children1

\* changeCellCancel emitting the cells that were active before the reset
changeCellCancelEmitsFirst(s, dirty) ==
  LET r == reset(s, dirty)
  IN emitGlobalSelected(r, getActiveCells(s))

\* changeCell when nothing is left selected: reset, then emit, no return value
changeCellCancel(s, dirty) ==
  LET r == reset(s, dirty)
  IN emitGlobalSelected(r, getActiveCells(r))

changeCell(s, options, dirty) ==
  LET cell == options.cell
      stateName == IF options.stateName = Undefined THEN SELECTED ELSE options.stateName
  IN IF changeCellRejects(cell) THEN s
     ELSE
       LET s1 == addIntercepts(s, <<InterceptHover>>)
           isColCell == cell.cellType = COL_CELL
           selectedCells == changeCellSelectedCells(s1, cell, options.isMultiSelection)
           childrenNodes == changeCellChildrenNodes(s1, cell, options.isMultiSelection)
       IN IF isEmpty(selectedCells)
          THEN changeCellCancel(s1, dirty)
          ELSE
            LET nodes == IF isEmpty(childrenNodes) THEN <<cell.id>> ELSE childrenNodes
                s2 == changeState(s1, StateInfo(stateName, TRUE, selectedCells, nodes,
                                                FALSE, "none"), dirty)
                s3 == updateCells(s2, getHeaderCells(mapIds(selectedCells)))
                s4 == IF ~sheet.hierarchyTree \/ isColCell
                      THEN highlightNodes(s3, childrenNodes) ELSE s3
                s5 == IF options.scrollIntoView THEN scrollToCell(s4, cell) ELSE s4
                s6 == emitGlobalSelected(s5, getActiveCells(s5))
            IN [s6 EXCEPT !.ret = "true"]

\* getDefaultInteractions + registerInteractions: the keys registered.  An
\* entry is registered unless its `enable` is exactly false.
getBrushSelectionInfo(brushSelection) ==
  IF brushSelection \in {"true", "false"} THEN brushSelection ELSE "false"

\* !isMobile() && flag
enableOf(isMobile, flag) == IF isMobile THEN "false" ELSE flag

registerInteractions(options) ==
  LET brush == getBrushSelectionInfo(options.brushSelection)
      entries ==
        { <<"cornerCellClick", Undefined>>, <<"dataCellClick", Undefined>>,
          <<"rowColumnClick", Undefined>>, <<"rowTextClick", Undefined>>,
          <<"mergedCellsClick", Undefined>>,
          <<"hover", enableOf(options.isMobile, "true")>>,
          <<"dataCellBrushSelection", enableOf(options.isMobile, brush)>>,
          <<"rowCellBrushSelection", enableOf(options.isMobile, brush)>>,
          <<"colCellBrushSelection", enableOf(options.isMobile, brush)>>,
          <<"rowColResize", enableOf(options.isMobile, options.resize)>>,
          <<"dataCellMultiSelection", enableOf(options.isMobile, options.multiSelection)>>,
          <<"rangeSelection", enableOf(options.isMobile, options.rangeSelection)>>,
          <<"selectedCellMove", enableOf(options.isMobile, options.selectedCellMove)>> }
  IN {e[1] : e \in {x \in entries : x[2] # "false"}} \cup options.customInteractions

\* ------------------------------------------------------------- inputs
SheetOptions(isMobile, flag, custom) ==
  [isMobile |-> isMobile, brushSelection |-> flag, resize |-> flag,
   multiSelection |-> flag, rangeSelection |-> flag, selectedCellMove |-> flag,
   customInteractions |-> custom]

\* the sheets the interaction is constructed for
Sheets ==
  { [options |-> SheetOptions(FALSE, "true", {}), hierarchyTree |-> FALSE, scrollBars |-> TRUE,
     panelBBox |-> [maxX |-> 2, maxY |-> 1]],
    [options |-> SheetOptions(TRUE, Undefined, {"custom"}), hierarchyTree |-> TRUE,
     scrollBars |-> FALSE, panelBBox |-> [maxX |-> 1, maxY |-> 2]] }

CellMetas == {getCellMeta(c) : c \in FacetCells}

\* the CellMeta of a cell outside the visible area: no cell of the facet has its id
hiddenMeta == [id |-> <<6>>, type |-> DATA_CELL]

RECURSIVE SeqsUpTo(_, _)
SeqsUpTo(S, n) ==
  IF n = 0 THEN {<<>>}
  ELSE LET shorter == SeqsUpTo(S, n - 1)
       IN shorter \cup {Append(q, x) : q \in shorter, x \in S}

StateNameArgs == {SELECTED, ALL_SELECTED, DATA_CELL_BRUSH_SELECTED, HOVER, Undefined}

\* the InteractionStateInfo objects callers pass to changeState: every state
\* name with every cell list; `cells` left out; `force` set; an
\* onUpdateCells callback that runs the update it is given, or drops it
StateInfoArgs ==
  {StateInfo(n, TRUE, c, <<>>, FALSE, "none") :
     n \in StateNameArgs, c \in SeqsUpTo(CellMetas, MaxCellsArg)}
  \cup {StateInfo(n, FALSE, <<>>, <<>>, f, "none") : n \in StateNameArgs, f \in BOOLEAN}
  \cup {StateInfo(n, TRUE, c, <<>>, TRUE, "none") :
          n \in {SELECTED, HOVER}, c \in {<<>>, <<getCellMeta(colCell)>>}}
  \cup {StateInfo(n, TRUE, <<getCellMeta(dataCellA)>>, <<>>, FALSE, u) :
          n \in {SELECTED, HOVER}, u \in {"update", "skip"}}
  \cup {StateInfo(SELECTED, TRUE, <<hiddenMeta>>, <<>>, FALSE, "none")}

\* the options callers pass to changeCell
ChangeCellArgs ==
  [cell : FacetCells, stateName : {Undefined, HOVER},
   isMultiSelection : BOOLEAN, scrollIntoView : BOOLEAN]
  \cup [cell : {emptyCell, noMetaCell, noXCell}, stateName : {Undefined},
        isMultiSelection : BOOLEAN, scrollIntoView : {TRUE}]

\* the lists callers pass to addIntercepts and removeIntercepts
InterceptArgs == {<<>>, <<"click">>, <<InterceptHover, "click">>}

ScrollAxes == {"offsetX", "offsetY", "rowHeaderOffsetX"}

\* the ScrollOffsetConfig objects callers pass to scrollTo: any of the axes
OffsetConfigArgs ==
  UNION {[axes -> [value : 0..MaxOffset, animate : {FALSE}]] : axes \in SUBSET ScrollAxes}

\* the records (field -> value) a clicked cell's data can be: with and
\* without a rowIndex field of its own
Records == UNION {[fields -> {7, 8}] : fields \in SUBSET {"city", "rowIndex"}}

\* the targets of COL_CELL_CLICK events: link-field text or not, and the
\* cell data found on the target
EventTargets ==
  [isLinkFieldText : BOOLEAN,
   cellData : [valueField : {"city", "type"}, rowIndex : 0..MaxRowIndex, data : Records]]

NoTarget ==
  [isLinkFieldText |-> FALSE,
   cellData |-> [valueField |-> Undefined, rowIndex |-> 0, data |-> <<>>]]

NoOptions ==
  [cell |-> emptyCell, stateName |-> Undefined, isMultiSelection |-> FALSE,
   scrollIntoView |-> FALSE]

Call(name) ==
  [name |-> name, info |-> NoInfo, options |-> NoOptions, types |-> <<>>,
   offset |-> <<>>, target |-> NoTarget, ret |-> Undefined]

\* ---------------------------------------------------------- the machine
Apply(result, call) ==
  \E s \in {result} :
  /\ storeRef' = s.storeRef
  /\ own' = s.own
  /\ intercepts' = s.intercepts
  /\ interactions' = s.interactions
  /\ eventController' = s.eventController
  /\ listener' = s.listener
  /\ scroll' = s.scroll
  /\ trace' = s.trace
  /\ op' = [call EXCEPT !.ret = s.ret]
  /\ UNCHANGED sheet

\* the state the constructor leaves
Init ==
  /\ sheet \in Sheets
  /\ storeRef = "unset"
  /\ own = NoInfo
  /\ intercepts = {}
  /\ interactions = registerInteractions(sheet.options)
  /\ eventController = "bound"
  /\ listener = TRUE
  /\ scroll = [scrollX |-> 0, scrollY |-> 0, rowHeaderScrollX |-> 0]
  /\ op = Call("constructor")
  /\ trace = <<>>

ChangeState ==
  \E info \in StateInfoArgs, dirty \in BOOLEAN :
     Apply(changeState(Cur, info, dirty), [Call("changeState") EXCEPT !.info = info])

ChangeCell ==
  \E options \in ChangeCellArgs, dirty \in BOOLEAN :
     Apply(changeCell(Cur, options, dirty), [Call("changeCell") EXCEPT !.options = options])

SelectAll == \E dirty \in BOOLEAN : Apply(selectAll(Cur, dirty), Call("selectAll"))

Reset == \E dirty \in BOOLEAN : Apply(reset(Cur, dirty), Call("reset"))

Destroy == Apply(destroy(Cur), Call("destroy"))

AddIntercepts ==
  \E types \in InterceptArgs :
     Apply(addIntercepts(Cur, types), [Call("addIntercepts") EXCEPT !.types = types])

RemoveIntercepts ==
  \E types \in InterceptArgs :
     Apply(removeIntercepts(Cur, types), [Call("removeIntercepts") EXCEPT !.types = types])

\* the window fires visibilitychange: the listener runs while registered
VisibilityChange ==
  Apply(IF listener THEN onTriggerInteractionsResetEffect(Cur) ELSE Cur,
        Call("visibilitychange"))

Next ==
  \/ ChangeState
  \/ ChangeCell
  \/ SelectAll
  \/ Reset
  \/ Destroy
  \/ AddIntercepts
  \/ RemoveIntercepts
  \/ VisibilityChange

Spec == Init /\ [][Next]_vars

\* ------------------------------------------------------ ColumnTextClick
\* BaseEvent.isLinkFieldText(target)
isLinkFieldText(target) == target.isLinkFieldText

\* BaseEvent.getCellAppendInfo(target)
getCellAppendInfo(target) == [cellData |-> target.cellData]

\* Object.assign(target, source): the source's fields over the target's
ObjectAssign(target, source) ==
  [k \in DOMAIN target \cup DOMAIN source |->
     IF k \in DOMAIN source THEN source[k] ELSE target[k]]

\* spreadsheet.emit(S2Event.GLOBAL_LINK_FIELD_JUMP, payload)
emitLinkFieldJump(s, payload) == Log(s, "GLOBAL_LINK_FIELD_JUMP", payload)

\* emitLinkFieldClickEvent with the operands of Object.assign swapped
emitLinkFieldClickEventRowIndexLast(s, event) ==
  LET cellData == getCellAppendInfo(event.target).cellData
  IN emitLinkFieldJump(s, [cellData |-> cellData, field |-> cellData.valueField,
                           record |-> ObjectAssign(cellData.data,
                                                   [rowIndex |-> cellData.rowIndex])])

emitLinkFieldClickEvent(s, event) ==
  LET cellData == getCellAppendInfo(event.target).cellData
      field == cellData.valueField
      record == cellData.data
  IN emitLinkFieldJump(s, [cellData |-> cellData, field |-> field,
                           record |-> ObjectAssign([rowIndex |-> cellData.rowIndex],
                                                   record)])

\* the COL_CELL_CLICK handler bound by bindColumnTextClick
bindColumnTextClick(s, event) ==
  IF isLinkFieldText(event.target) THEN emitLinkFieldClickEvent(s, event) ELSE s

\* the sheet emits COL_CELL_CLICK
ColCellClick ==
  \E target \in EventTargets :
     Apply(bindColumnTextClick(Cur, [target |-> target]),
           [Call("colCellClick") EXCEPT !.target = target])

NextColumnTextClick == ColCellClick

SpecColumnTextClick == Init /\ [][NextColumnTextClick]_vars

\* ------------------------------------------------------- scrolling alone
ScrollTo ==
  \E offsetConfig \in OffsetConfigArgs :
     Apply(scrollTo(Cur, offsetConfig), [Call("scrollTo") EXCEPT !.offset = offsetConfig])

ScrollToTop == \E animate \in BOOLEAN : Apply(scrollToTop(Cur, animate), Call("scrollToTop"))

ScrollToRight ==
  \E animate \in BOOLEAN : Apply(scrollToRight(Cur, animate), Call("scrollToRight"))

ScrollToBottom ==
  \E animate \in BOOLEAN : Apply(scrollToBottom(Cur, animate), Call("scrollToBottom"))

ScrollToLeft == \E animate \in BOOLEAN : Apply(scrollToLeft(Cur, animate), Call("scrollToLeft"))

NextScroll ==
  \/ ScrollTo
  \/ ScrollToTop
  \/ ScrollToRight
  \/ ScrollToBottom
  \/ ScrollToLeft

SpecScroll == Init /\ [][NextScroll]_vars

\* ------------------------------------------------------------ properties
\* the cell list a changeState(info) call is to store: info.cells, else []
argCells(info) == IF info.cellsGiven THEN info.cells ELSE <<>>

\* changeState(info) takes the early return of lines 784-793
earlyReturn(info) == argCells(info) = <<>> /\ info.stateName = SELECTED

\* the positions of effect e in the trace of the last call
At(e) == {i \in 1..Len(trace) : trace[i].e = e}

C2_ChangeStateOrder ==
  /\ (op.name = "changeState" /\ (~earlyReturn(op.info) \/ op.info.force))
       => \E c \in At("clearState"), st \in At("setState") :
            /\ At("clearState") = {c}
            /\ At("setState") = {st}
            /\ c < st
            /\ trace[Len(trace)].e = "draw"
            /\ ~earlyReturn(op.info) /\ op.info.onUpdateCells # "none"
                 => /\ At("onUpdateCells") = {st + 1}
                    /\ At("updateCells") \subseteq {st + 2}
                    /\ At("draw") \cap (st..Len(trace)) = {Len(trace)}
            /\ earlyReturn(op.info) \/ op.info.onUpdateCells = "none"
                 => /\ At("updateCells") = {st + 1}
                    /\ At("draw") \cap (st..Len(trace)) = {st + 2}
                    /\ Len(trace) = st + 2
  /\ \A st \in At("setState") : \E d \in At("draw") : st < d

C2_Witness ==
  /\ op.name = "changeState"
  /\ op.info.onUpdateCells = "skip"
  /\ At("updateCells") = {}
  /\ At("setState") # {}
  /\ trace[Len(trace)].e = "draw"

\* C3: changeState with empty or omitted cells, SELECTED and no force changes
\* nothing: the stored state and the intercepts stay, nothing is updated or drawn.
C3_EmptySelectedIsNoOp ==
  [][(op'.name = "changeState" /\ earlyReturn(op'.info) /\ ~op'.info.force)
       => /\ storeRef' = storeRef
          /\ own' = own
          /\ intercepts' = intercepts
          /\ trace' = <<>>]_vars

C3_Witness ==
  /\ op.name = "changeState"
  /\ earlyReturn(op.info)
  /\ ~op.info.force
  /\ getCurrentStateName(Cur) = ALL_SELECTED
  /\ intercepts = {InterceptHover}
  /\ trace = <<>>

\* C4: changeState with empty cells, SELECTED and force leaves state
\* UNSELECTED with no cells: isSelectedState() is false, getCells() is [].
C4_ForceUnselects ==
  (op.name = "changeState" /\ earlyReturn(op.info) /\ op.info.force)
    => /\ getCurrentStateName(Cur) = UNSELECTED
       /\ ~isSelectedState(Cur)
       /\ getCells(Cur) = <<>>

C4_Witness ==
  /\ op.name = "changeState"
  /\ earlyReturn(op.info)
  /\ op.info.force
  /\ getCurrentStateName(Cur) = UNSELECTED
  /\ At("draw") # {}

\* a cell changeCell accepts: not empty, with a meta that has an x
Usable(cell) == ~cell.empty /\ cell.meta = "ok"

\* the CellMeta of cell X in a cell list
MetaOf(cell) == [id |-> cell.id, type |-> cell.cellType]

\* C5: changeCell without multi-selection on a cell that is selected cancels
\* the selection: no cells, no state name, no intercepts (the HOVER one the
\* call added included), tooltip hidden, and undefined is returned, not true.
C5_ChangeCellTogglesSelection ==
  [][(/\ op'.name = "changeCell"
      /\ ~op'.options.isMultiSelection
      /\ Usable(op'.options.cell)
      /\ isSelectedCell(Cur, op'.options.cell))
       => /\ getCells(Cur)' = <<>>
          /\ getCurrentStateName(Cur)' = Undefined
          /\ intercepts' = {}
          /\ \E i \in 1..Len(trace') : trace'[i].e = "hideTooltip"
          /\ op'.ret = Undefined]_vars

C5_Witness ==
  /\ op.name = "changeCell"
  /\ ~op.options.isMultiSelection
  /\ op.options.cell = dataCellA
  /\ op.ret = Undefined
  /\ At("hideTooltip") # {}
  /\ At("GLOBAL_SELECTED") # {}
  /\ getCells(Cur) = <<>>
  /\ intercepts = {}

C7_ChangeCellRejectsUnusable ==
  [][(op'.name = "changeCell" /\ op'.options.cell \in {emptyCell, noMetaCell, noXCell})
       => /\ op'.ret = Undefined
          /\ storeRef' = storeRef
          /\ own' = own
          /\ intercepts' = intercepts
          /\ scroll' = scroll
          /\ \A i \in 1..Len(trace') : trace'[i].e # "GLOBAL_SELECTED"]_vars

C7_Witness ==
  /\ op.name = "changeCell"
  /\ op.options.cell = noXCell
  /\ op.options.scrollIntoView
  /\ op.ret = Undefined
  /\ intercepts = {}
  /\ getCells(Cur) = <<MetaOf(colCell)>>
  /\ scroll.scrollX # dataCellA.x
  /\ sheet.scrollBars
  /\ trace = <<>>

\* C8: after selectAll(), from any state, the state name is ALL_SELECTED,
\* isAllSelectedState() and isSelectedState() are true, isHoverState() is
\* false and the HOVER intercept is in the intercept set.
C8_SelectAll ==
  op.name = "selectAll"
    => /\ getCurrentStateName(Cur) = ALL_SELECTED
       /\ isAllSelectedState(Cur)
       /\ isSelectedState(Cur)
       /\ ~isHoverState(Cur)
       /\ hasIntercepts(Cur, <<InterceptHover>>)
       /\ InterceptHover \in intercepts

C8_Witness ==
  /\ op.name = "selectAll"
  /\ isAllSelectedState(Cur)
  /\ intercepts = InterceptType
  /\ ~listener

C10_Destroy ==
  [][/\ op'.name = "destroy"
          => /\ interactions' = {}
             /\ intercepts' = {}
             /\ eventController' = "cleared"
             /\ storeRef' = "default"
             /\ getState(Cur)' = defaultState
             /\ ~listener'
     /\ ~listener
          => /\ ~listener'
             /\ interactions' = {}
             /\ op'.name = "visibilitychange"
                  => \A i \in 1..Len(trace') : trace'[i].e # "interaction.reset"]_vars

C10_Witness ==
  /\ op.name = "visibilitychange"
  /\ ~listener
  /\ interactions = {}
  /\ eventController = "cleared"
  /\ trace = <<>>

\* the lists hasIntercepts is asked about
InterceptQueries == SeqsUpTo(InterceptType, 2)

\* C11: the intercepts are a set.  hasIntercepts(T) holds after
\* addIntercepts(A) iff it held before or T shares a type with A; after
\* removeIntercepts(R) iff a type of T outside R was present before; never
\* after reset or destroy.  Adding types already present and removing absent
\* types change nothing, and hasIntercepts([]) is false.
C11_InterceptsAreASet ==
  [][/\ op'.name = "addIntercepts"
          => /\ \A T \in InterceptQueries :
                  hasIntercepts(Cur, T)'
                    <=> \/ hasIntercepts(Cur, T)
                        \/ \E i \in 1..Len(T), j \in 1..Len(op'.types) : T[i] = op'.types[j]
             /\ (\A j \in 1..Len(op'.types) : hasIntercepts(Cur, <<op'.types[j]>>))
                  => intercepts' = intercepts
     /\ op'.name = "removeIntercepts"
          => /\ \A T \in InterceptQueries :
                  hasIntercepts(Cur, T)'
                    <=> \E i \in 1..Len(T) :
                          /\ \A j \in 1..Len(op'.types) : T[i] # op'.types[j]
                          /\ hasIntercepts(Cur, <<T[i]>>)
             /\ ~hasIntercepts(Cur, op'.types) => intercepts' = intercepts
     /\ op'.name \in {"reset", "destroy"}
          => \A T \in InterceptQueries : ~hasIntercepts(Cur, T)'
     /\ ~hasIntercepts(Cur, <<>>)']_vars

C11_Witness ==
  /\ op.name = "removeIntercepts"
  /\ op.types = <<"click">>
  /\ hasIntercepts(Cur, <<"click", InterceptHover>>)
  /\ ~hasIntercepts(Cur, <<"click">>)
  /\ intercepts = {InterceptHover}

\* the ids of the facet's cells among the ids of a cell list, in list order
VisibleIds(cells) ==
  SelectSeq([i \in 1..Len(cells) |-> cells[i].id],
            LAMBDA id : \E i \in 1..Len(facetGetCells) : facetGetCells[i].id = id)

\* C12: a changeCell call that passes its guards emits GLOBAL_SELECTED once,
\* as its last effect, with the active cells of the state the call leaves
\* (none when the call cancelled the selection), not of the state before.
C12_ChangeCellEmitsNewSelection ==
  (op.name = "changeCell" /\ Usable(op.options.cell))
    => /\ At("GLOBAL_SELECTED") = {Len(trace)}
       /\ trace[Len(trace)].a = VisibleIds(getCells(Cur))
       /\ op.ret = Undefined => trace[Len(trace)].a = <<>>

C12_Witness ==
  /\ op.name = "changeCell"
  /\ op.options.isMultiSelection
  /\ getCells(Cur) = <<hiddenMeta, MetaOf(dataCellA)>>
  /\ At("GLOBAL_SELECTED") = {Len(trace)}
  /\ trace[Len(trace)].a = <<dataCellA.id>>
  /\ At("updateScrollOffset") # {}

\* the offsets handed to facet.updateScrollOffset by the last call
Passed == trace[Len(trace)].a

\* C13: scrollTo hands updateScrollOffset the facet's current offset for
\* every axis its argument leaves out; so scrollToTop and scrollToBottom
\* keep both horizontal offsets and scrollToLeft and scrollToRight keep the
\* vertical one (and the row header's).
C13_ScrollToKeepsAbsentAxes ==
  [][op'.name \in {"scrollTo", "scrollToTop", "scrollToRight", "scrollToBottom", "scrollToLeft"}
       => /\ Len(trace') = 1
          /\ trace'[1].e = "updateScrollOffset"
          /\ op'.name = "scrollTo"
               => /\ "offsetX" \notin DOMAIN op'.offset => Passed'[1] = scroll.scrollX
                  /\ "offsetY" \notin DOMAIN op'.offset => Passed'[2] = scroll.scrollY
                  /\ "rowHeaderOffsetX" \notin DOMAIN op'.offset
                       => Passed'[3] = scroll.rowHeaderScrollX
          /\ op'.name \in {"scrollToTop", "scrollToBottom"}
               => /\ Passed'[1] = scroll.scrollX
                  /\ Passed'[3] = scroll.rowHeaderScrollX
          /\ op'.name \in {"scrollToLeft", "scrollToRight"}
               => /\ Passed'[2] = scroll.scrollY
                  /\ Passed'[3] = scroll.rowHeaderScrollX]_vars

C13_Witness ==
  /\ op.name = "scrollToBottom"
  /\ Passed = <<2, sheet.panelBBox.maxY, 1>>
  /\ scroll.scrollX = 2
  /\ scroll.rowHeaderScrollX = 1

\* C14: on COL_CELL_CLICK ColumnTextClick emits GLOBAL_LINK_FIELD_JUMP once
\* when the target is link-field text and not otherwise; the record emitted
\* has every field of the cell data's record, and rowIndex: the record's own
\* when it has one, else cellData.rowIndex; the field is cellData.valueField.
C14_LinkFieldJump ==
  op.name = "colCellClick"
    => IF op.target.isLinkFieldText
       THEN /\ Len(trace) = 1
            /\ trace[1].e = "GLOBAL_LINK_FIELD_JUMP"
            /\ trace[1].a.field = op.target.cellData.valueField
            /\ trace[1].a.cellData = op.target.cellData
            /\ DOMAIN trace[1].a.record = DOMAIN op.target.cellData.data \cup {"rowIndex"}
            /\ \A k \in DOMAIN op.target.cellData.data :
                 trace[1].a.record[k] = op.target.cellData.data[k]
            /\ "rowIndex" \notin DOMAIN op.target.cellData.data
                 => trace[1].a.record["rowIndex"] = op.target.cellData.rowIndex
       ELSE trace = <<>>

C14_Witness ==
  /\ op.name = "colCellClick"
  /\ op.target.isLinkFieldText
  /\ op.target.cellData.rowIndex = 1
  /\ DOMAIN op.target.cellData.data = {"city", "rowIndex"}
  /\ At("GLOBAL_LINK_FIELD_JUMP") = {1}
  /\ trace[1].a.record["rowIndex"] = 7
  /\ trace[1].a.record["city"] = 8

====
